---- MODULE Spec2Model ----
(***************************************************************************)
(* TestAutomationAnalyzer (IN_EPIC_Reports_v7.py, with the aggregation of  *)
(* the earlier variants v2/v4/v5 and v6): a table of test records is read, *)
(* consolidated per Epic, classified by pass rate, sorted, and written out *)
(* as a table image and as a spreadsheet.                                  *)
(*                                                                         *)
(* Numbers: the outcome counts are integers.  passRate is a float rounded  *)
(* to 2 decimals; it is kept here in hundredths of a percent (95.00 is     *)
(* 9500), so that the thresholds and the rounding are exact.               *)
(***************************************************************************)
EXTENDS Integers, Sequences, FiniteSets, TLC

VARIABLES
    df,                 \* self.df: the loaded records, in file order
    consolidated_df,    \* self.consolidated_df (v7)
    consolidated_v5,    \* self.consolidated_df as v2/v4/v5 build it from df
    consolidated_v6,    \* self.consolidated_df as v6 builds it from df
    image,              \* the image file written by save_epic_summary_table_plot
    xlsx,               \* the workbook saved under the dated name
    pbi,                \* the workbook saved under the fixed PowerBI name
    raised,             \* the exception the last call ended with, "" for none
    pc                  \* "ready": an analyzer is constructed; else the script's position

vars == <<df, consolidated_df, consolidated_v5, consolidated_v6, image, xlsx, pbi,
          raised, pc>>

----------------------------------------------------------------------------
(* Bounds of the model and the input domain                                *)

MaxRecords == 2

\* A missing cell of a text column (pandas reads it as NaN).
NA == "<NaN>"

\* The float NaN that 0/0 yields, in the passRate column.
NaN == -1

\* The empty string '' the TOTAL row carries in its passRate column.
Blank == -2

Epics == {"A", "S1 - No EPIC Tagged", "Test Cases Not Tagged"}
Features == {"F1"}
Stories == {"S1"}

\* Epic, Feature, Story of a record: no epic with every combination of feature
\* and story, each epic alone, and an epic with feature and story.  Two of the
\* epics have the text of a key the fallback rules produce.
TagCombos ==
    ({NA} \X (Features \cup {NA}) \X (Stories \cup {NA}))
    \cup (Epics \X {NA} \X {NA})
    \cup ({"A"} \X Features \X Stories)

\* PASSED, FAILED, BROKEN, SKIPPED, UNKNOWN of a record (pre-aggregated counts
\* are allowed): no tests, 95.00 %, 80.00 %, 79.99 %, 0 %.
CountVectors ==
    { <<0, 0, 0, 0, 0>>,
      <<19, 1, 0, 0, 1>>,
      <<4, 0, 1, 0, 0>>,
      <<1067, 200, 0, 67, 0>>,
      <<0, 0, 1, 0, 0>> }

MkRecord(t, c) ==
    [Epic |-> t[1], Feature |-> t[2], Story |-> t[3],
     PASSED |-> c[1], FAILED |-> c[2], BROKEN |-> c[3], SKIPPED |-> c[4],
     UNKNOWN |-> c[5]]

Records == { MkRecord(t, c) : t \in TagCombos, c \in CountVectors }

SeqsUpTo(S, n) == UNION { [1..k -> S] : k \in 0..n }

----------------------------------------------------------------------------
(* pandas helpers                                                          *)

notna(x) == x # NA
isna(x) == x = NA

\* Python orders str by code point; the texts that occur as group keys or as
\* status labels, in that order.
StrOrder ==
    << "A", "Acceptable", "Maintenance Advised", "Review Required", "S1",
       "S1 - No EPIC Tagged", "Test Cases Not Tagged" >>

StrRank(s) == CHOOSE i \in 1..Len(StrOrder) : StrOrder[i] = s

StrLess(a, b) == StrRank(a) < StrRank(b)

RECURSIVE SumCol(_, _)
\* Series.sum() of one column; a NaN cell is skipped (skipna)
SumCol(rows, col) ==
    IF rows = <<>> THEN 0
    ELSE (IF rows[1][col] = NaN THEN 0 ELSE rows[1][col]) + SumCol(Tail(rows), col)

RECURSIVE SortedKeys(_)
\* the distinct keys of a groupby, which sorts them (sort=True)
SortedKeys(S) ==
    IF S = {} THEN <<>>
    ELSE LET m == CHOOSE x \in S : \A y \in S : x = y \/ StrLess(x, y)
         IN <<m>> \o SortedKeys(S \ {m})

RECURSIVE KeysInOrder(_, _)
\* the distinct non-missing keys in the order of their first appearance
KeysInOrder(rows, col) ==
    IF rows = <<>> THEN <<>>
    ELSE LET init == KeysInOrder(SubSeq(rows, 1, Len(rows) - 1), col)
             k == rows[Len(rows)][col]
         IN IF k = NA \/ \E i \in 1..Len(init) : init[i] = k
            THEN init ELSE Append(init, k)

\* mutant: groupby(col, sort=False), the keys in the order of appearance
groupby_sum_unsorted(rows, col, cols) ==
    LET keys == KeysInOrder(rows, col)
        grp(k) == SelectSeq(rows, LAMBDA r : r[col] = k)
    IN [i \in 1..Len(keys) |->
          [c \in cols \cup {col} |->
             IF c = col THEN keys[i] ELSE SumCol(grp(keys[i]), c)]]

\* rows.groupby(col).agg({c: 'sum' for c in cols}).reset_index(): one row per
\* distinct non-missing key, keys ascending; rows with a missing key are left out
groupby_sum(rows, col, cols) ==
    LET keys == SortedKeys({ rows[i][col] : i \in 1..Len(rows) } \ {NA})
        grp(k) == SelectSeq(rows, LAMBDA r : r[col] = k)
    IN [i \in 1..Len(keys) |->
          [c \in cols \cup {col} |->
             IF c = col THEN keys[i] ELSE SumCol(grp(keys[i]), c)]]

\* round(x, 2) of 100 * n / d in hundredths: nearest, ties to even
RoundHalfEven(n, d) ==
    LET q == n \div d
        r == n % d
    IN IF 2 * r < d THEN q
       ELSE IF 2 * r > d THEN q + 1
       ELSE IF q % 2 = 0 THEN q ELSE q + 1

\* mutant: the rate rounded to 1 decimal
passRateOf_one_decimal(passed, total) ==
    IF total = 0 THEN NaN ELSE RoundHalfEven(1000 * passed, total) * 10

\* (PASSED / totalTests * 100).round(2); 0/0 is NaN and raises nothing.
\* (With non-negative counts PASSED <= totalTests, so x/0 with x > 0 is absent.)
passRateOf(passed, total) ==
    IF total = 0 THEN NaN ELSE RoundHalfEven(10000 * passed, total)

----------------------------------------------------------------------------
(* _determine_status                                                       *)

\* every comparison with NaN is False
GE(x, y) == x # NaN /\ x >= y

\* mutant: the thresholds compared with > instead of >=
_determine_status_strict(pass_rate) ==
    IF pass_rate # NaN /\ pass_rate > 9500 THEN "Acceptable"
    ELSE IF pass_rate # NaN /\ pass_rate > 8000 THEN "Maintenance Advised"
    ELSE "Review Required"

\* mutant: the branches tested from the bottom, so that NaN, which fails every
\* comparison, falls through to the last one
_determine_status_bottom_up(pass_rate) ==
    IF pass_rate # NaN /\ pass_rate < 8000 THEN "Review Required"
    ELSE IF pass_rate # NaN /\ pass_rate < 9500 THEN "Maintenance Advised"
    ELSE "Acceptable"

_determine_status(pass_rate) ==
    IF GE(pass_rate, 9500) THEN "Acceptable"
    ELSE IF GE(pass_rate, 8000) THEN "Maintenance Advised"
    ELSE "Review Required"

----------------------------------------------------------------------------
(* sort_values                                                             *)

\* v7: by=['status', 'passRate'], ascending=[True, False], NaN last
Before_v7(a, b) ==
    \/ StrLess(a.status, b.status)
    \/ /\ a.status = b.status
       /\ a.passRate # NaN
       /\ (b.passRate = NaN \/ a.passRate > b.passRate)

\* v2..v6: by='status'
Before_v5(a, b) == StrLess(a.status, b.status)

\* whether row a sorts strictly before row b under the given sort keys
Before(by, a, b) == IF by = "status" THEN Before_v5(a, b) ELSE Before_v7(a, b)

RECURSIVE InsertRow(_, _, _)
InsertRow(s, x, by) ==
    IF s = <<>> THEN <<x>>
    ELSE IF Before(by, x, s[1]) THEN <<x>> \o s
    ELSE <<s[1]>> \o InsertRow(Tail(s), x, by)

RECURSIVE SortRows(_, _)
\* a stable sort: rows that compare equal keep their order
SortRows(rows, by) ==
    IF rows = <<>> THEN <<>>
    ELSE InsertRow(SortRows(SubSeq(rows, 1, Len(rows) - 1), by),
                   rows[Len(rows)], by)

\* mutant: the single-key sort of the earlier variants
sort_values_v7_status_only(rows) == SortRows(rows, "status")

sort_values_v7(rows) == SortRows(rows, "status,passRate")

sort_values_v5(rows) == SortRows(rows, "status")

----------------------------------------------------------------------------
(* _consolidate_epics, v7                                                  *)

Outcomes == {"PASSED", "FAILED", "BROKEN", "SKIPPED"}

epic_rows(d) == SelectSeq(d, LAMBDA r : notna(r.Epic))

\* mutant: the Feature column not tested
story_only_rows_any_feature(d) ==
    SelectSeq(d, LAMBDA r : isna(r.Epic) /\ notna(r.Story))

story_only_rows(d) ==
    SelectSeq(d, LAMBDA r : isna(r.Epic) /\ isna(r.Feature) /\ notna(r.Story))

untagged_rows(d) ==
    SelectSeq(d, LAMBDA r : isna(r.Epic) /\ isna(r.Feature) /\ isna(r.Story))

consolidated_epics(d) == groupby_sum(epic_rows(d), "Epic", Outcomes)

\* grouped by Story, the Story column renamed to Epic and suffixed
consolidated_stories(d) ==
    LET g == groupby_sum(story_only_rows(d), "Story", Outcomes)
    IN [i \in 1..Len(g) |->
          [c \in Outcomes \cup {"Epic"} |->
             IF c = "Epic" THEN g[i].Story \o " - No EPIC Tagged" ELSE g[i][c]]]

untagged_summary(d) ==
    << [c \in Outcomes \cup {"Epic"} |->
          IF c = "Epic" THEN "Test Cases Not Tagged"
          ELSE SumCol(untagged_rows(d), c)] >>

\* mutant: the untagged row appended whether or not a record is untagged
consolidated_list_always_untagged(d) ==
    consolidated_epics(d)
    \o (IF story_only_rows(d) # <<>> THEN consolidated_stories(d) ELSE <<>>)
    \o untagged_summary(d)

\* consolidated_list: the epic rows, then the story rows and the untagged row
\* when there are such records
consolidated_list(d) ==
    consolidated_epics(d)
    \o (IF story_only_rows(d) # <<>> THEN consolidated_stories(d) ELSE <<>>)
    \o (IF untagged_rows(d) # <<>> THEN untagged_summary(d) ELSE <<>>)

\* mutant: SKIPPED left out of the sum
totalTests_v7_no_skipped(r) == r.PASSED + r.FAILED + r.BROKEN

\* totalTests of a row: the sum of the tracked outcome columns
totalTests_v7(r) == r.PASSED + r.FAILED + r.BROKEN + r.SKIPPED

\* the three metric columns added to a row
with_metrics_v7(r) ==
    LET total == totalTests_v7(r)
        rate == passRateOf(r.PASSED, total)
    IN [Epic |-> r.Epic, PASSED |-> r.PASSED, FAILED |-> r.FAILED,
        BROKEN |-> r.BROKEN, SKIPPED |-> r.SKIPPED,
        totalTests |-> total, passRate |-> rate,
        status |-> _determine_status(rate)]

_consolidate_epics(d) ==
    LET consolidated == consolidated_list(d)
    IN sort_values_v7([i \in 1..Len(consolidated) |->
                          with_metrics_v7(consolidated[i])])

----------------------------------------------------------------------------
(* _consolidate_epics, v2/v4/v5 (UNKNOWN tracked) and v6 (UNKNOWN dropped)  *)

Outcomes_v5 == Outcomes \cup {"UNKNOWN"}

totalTests_v5(r) == r.PASSED + r.FAILED + r.BROKEN + r.SKIPPED + r.UNKNOWN

with_metrics_v5(r) ==
    LET total == totalTests_v5(r)
        rate == passRateOf(r.PASSED, total)
    IN [Epic |-> r.Epic, PASSED |-> r.PASSED, FAILED |-> r.FAILED,
        BROKEN |-> r.BROKEN, SKIPPED |-> r.SKIPPED, UNKNOWN |-> r.UNKNOWN,
        totalTests |-> total, passRate |-> rate,
        status |-> _determine_status(rate)]

\* The single-key sort is numpy's default sort, which for tables this short
\* is an insertion sort and keeps equal rows in order.
_consolidate_epics_v5(d) ==
    LET consolidated == groupby_sum(d, "Epic", Outcomes_v5)
    IN sort_values_v5([i \in 1..Len(consolidated) |->
                          with_metrics_v5(consolidated[i])])

_consolidate_epics_v6(d) ==
    LET consolidated == groupby_sum(d, "Epic", Outcomes)
    IN sort_values_v5([i \in 1..Len(consolidated) |->
                          with_metrics_v7(consolidated[i])])

----------------------------------------------------------------------------
(* The display table: the aggregated rows and the TOTAL row                *)

\* the columns of consolidated_df, and so of final_df, in order
Columns ==
    << "Epic", "PASSED", "FAILED", "BROKEN", "SKIPPED",
       "totalTests", "passRate", "status" >>

\* one row of DataFrame.values.tolist() / dataframe_to_rows: the cells in
\* column order
row_values(r) == [j \in 1..Len(Columns) |-> r[Columns[j]]]

\* generate_epic_summary_table_plot: totals, totals_row
totals_row_plot(cdf) ==
    [Epic |-> "TOTAL",
     PASSED |-> SumCol(cdf, "PASSED"), FAILED |-> SumCol(cdf, "FAILED"),
     BROKEN |-> SumCol(cdf, "BROKEN"), SKIPPED |-> SumCol(cdf, "SKIPPED"),
     totalTests |-> SumCol(cdf, "totalTests"),
     passRate |-> Blank, status |-> ""]

\* mutant: the TOTAL row put first
final_df_plot_total_first(cdf) == <<totals_row_plot(cdf)>> \o cdf

\* generate_epic_summary_table_plot: final_df (pd.concat makes a new frame)
final_df_plot(cdf) == cdf \o <<totals_row_plot(cdf)>>

\* mutant: totalTests of the TOTAL row taken from the PASSED column
totals_row_excel_wrong_column(cdf) ==
    [Epic |-> "TOTAL",
     PASSED |-> SumCol(cdf, "PASSED"), FAILED |-> SumCol(cdf, "FAILED"),
     BROKEN |-> SumCol(cdf, "BROKEN"), SKIPPED |-> SumCol(cdf, "SKIPPED"),
     totalTests |-> SumCol(cdf, "PASSED"),
     passRate |-> Blank, status |-> ""]

\* save_epic_summary_to_excel: totals, totals_row
totals_row_excel(cdf) ==
    [Epic |-> "TOTAL",
     PASSED |-> SumCol(cdf, "PASSED"), FAILED |-> SumCol(cdf, "FAILED"),
     BROKEN |-> SumCol(cdf, "BROKEN"), SKIPPED |-> SumCol(cdf, "SKIPPED"),
     totalTests |-> SumCol(cdf, "totalTests"),
     passRate |-> Blank, status |-> ""]

\* save_epic_summary_to_excel: final_df
final_df_excel(cdf) == cdf \o <<totals_row_excel(cdf)>>

----------------------------------------------------------------------------
(* The table image                                                         *)

column_labels ==
    << "Epic", "Passed", "Failed", "Broken", "Skipped",
       "Total Tests", "Pass Rate %", "Status" >>

table_colors(status) ==
    CASE status = "Acceptable" -> "lightgreen"
      [] status = "Maintenance Advised" -> "yellow"
      [] status = "Review Required" -> "lightpink"

status_in_table_colors(status) ==
    status \in {"Acceptable", "Maintenance Advised", "Review Required"}

\* the face colour a table cell has until one is set
DefaultFace == "w"

\* table_data
table_data(cdf) ==
    LET final_df == final_df_plot(cdf)
    IN [i \in 1..Len(final_df) |-> row_values(final_df[i])]

\* mutant: the status colour set on table row i instead of i + 1
cell_facecolors_row_off_by_one(cdf) ==
    LET data == [i \in 1..Len(final_df_plot(cdf)) |-> row_values(final_df_plot(cdf)[i])]
    IN [k \in 1..(Len(data) + 1) |->
          [j \in 1..8 |->
             IF k = 1 THEN "paleturquoise"
             ELSE LET i == k - 1
                      status == data[i + 1][Len(data[i + 1])]
                  IN IF i < Len(cdf) /\ status \in {"Acceptable", "Maintenance Advised", "Review Required"}
                     THEN (CASE status = "Acceptable" -> "lightgreen"
                             [] status = "Maintenance Advised" -> "yellow"
                             [] status = "Review Required" -> "lightpink")
                     ELSE "w"]]

\* The face colour of every cell once both colouring loops have run.  Table
\* row 0 is the header; data row i (0-based) is table row i + 1.  Element
\* k of the result is table row k - 1.
cell_facecolors(cdf) ==
    LET data == table_data(cdf)
    IN [k \in 1..(Len(data) + 1) |->
          [j \in 1..Len(column_labels) |->
             IF k = 1 THEN "paleturquoise"
             ELSE LET i == k - 2
                      status == data[i + 1][Len(data[i + 1])]
                  IN IF i < Len(cdf) /\ status_in_table_colors(status)
                     THEN table_colors(status)
                     ELSE DefaultFace]]

NoImage == [written |-> FALSE, colLabels |-> <<>>, cellText |-> <<>>,
            facecolor |-> <<>>]

\* the figure generate_epic_summary_table_plot leaves for plt.savefig
generate_epic_summary_table_plot(cdf) ==
    [written |-> TRUE, colLabels |-> column_labels,
     cellText |-> table_data(cdf), facecolor |-> cell_facecolors(cdf)]

----------------------------------------------------------------------------
(* The workbook                                                            *)

\* the fill of a cell no fill was assigned to (openpyxl's default)
NoFill == "none"

NoWorkbook == [written |-> FALSE, title |-> "", rows |-> <<>>, bold |-> {},
               fill |-> <<>>]

\* the sheet: the header row (the frame's column names) and one row per row of
\* final_df; row 1 is bold and centred, and no cell is given a fill
workbook(cdf) ==
    LET final_df == final_df_excel(cdf)
    IN [written |-> TRUE, title |-> "EPIC Summary",
        rows |-> <<Columns>> \o [i \in 1..Len(final_df) |-> row_values(final_df[i])],
        bold |-> {1},
        fill |-> [i \in 1..(Len(final_df) + 1) |->
                    [j \in 1..Len(Columns) |-> NoFill]]]

----------------------------------------------------------------------------
(* The analyzer                                                            *)

\* __init__: read the records, consolidate
Init ==
    /\ df \in SeqsUpTo(Records, MaxRecords)
    /\ consolidated_df = _consolidate_epics(df)
    /\ consolidated_v5 = _consolidate_epics_v5(df)
    /\ consolidated_v6 = _consolidate_epics_v6(df)
    /\ image = NoImage
    /\ xlsx = NoWorkbook
    /\ pbi = NoWorkbook
    /\ raised = ""
    /\ pc = "ready"

\* save_epic_summary_table_plot: build the table, raise on a label mismatch
\* (nothing is written then), otherwise save the figure
save_epic_summary_table_plot ==
    /\ pc = "ready"
    /\ IF Len(Columns) # Len(column_labels)
       THEN /\ raised' = "ValueError"
            /\ UNCHANGED image
       ELSE /\ raised' = ""
            /\ image' = generate_epic_summary_table_plot(consolidated_df)
    /\ UNCHANGED <<df, consolidated_df, consolidated_v5, consolidated_v6, xlsx, pbi, pc>>

\* mutant: the TOTAL row appended to consolidated_df itself
save_epic_summary_to_excel_in_place ==
    /\ pc = "ready"
    /\ xlsx' = workbook(consolidated_df)
    /\ pbi' = workbook(consolidated_df)
    /\ consolidated_df' = final_df_excel(consolidated_df)
    /\ raised' = ""
    /\ UNCHANGED <<df, consolidated_v5, consolidated_v6, image, pc>>

\* save_epic_summary_to_excel: build the workbook, save it under the dated
\* name and again under the fixed name
save_epic_summary_to_excel ==
    /\ pc = "ready"
    /\ xlsx' = workbook(consolidated_df)
    /\ pbi' = workbook(consolidated_df)
    /\ raised' = ""
    /\ UNCHANGED <<df, consolidated_df, consolidated_v5, consolidated_v6, image, pc>>

\* the state __init__ leaves for the records d
Constructed(d) ==
    /\ df = d
    /\ consolidated_df = _consolidate_epics(d)
    /\ consolidated_v5 = _consolidate_epics_v5(d)
    /\ consolidated_v6 = _consolidate_epics_v6(d)
    /\ image = NoImage
    /\ xlsx = NoWorkbook
    /\ pbi = NoWorkbook
    /\ raised = ""
    /\ pc = "ready"

Next ==
    \/ save_epic_summary_table_plot
    \/ save_epic_summary_to_excel

Spec == Init /\ [][Next]_vars

----------------------------------------------------------------------------
(* Properties                                                              *)

Counts == <<"PASSED", "FAILED", "BROKEN", "SKIPPED">>

RECURSIVE TrackedSum(_)
\* the tracked outcome counts (v7) of a sequence of records or rows, summed
TrackedSum(rows) ==
    IF rows = <<>> THEN 0
    ELSE rows[1].PASSED + rows[1].FAILED + rows[1].BROKEN + rows[1].SKIPPED
         + TrackedSum(Tail(rows))

\* C1: every record contributes its counts to exactly one row, so the
\* totalTests of all rows add up to the tracked counts of all input records.
C1_Conservation ==
    SumCol(consolidated_df, "totalTests") = TrackedSum(df)

\* the counts of a row or record, as a tuple
CountsOf(r) == [j \in 1..Len(Counts) |-> r[Counts[j]]]

\* the counts of a sequence of records, added up column by column
SumCounts(sel) == [j \in 1..Len(Counts) |-> SumCol(sel, Counts[j])]

IsEpicTagged(r) == r.Epic # NA
IsStoryOnly(r) == r.Epic = NA /\ r.Feature = NA /\ r.Story # NA
IsUntagged(r) == r.Epic = NA /\ r.Feature = NA /\ r.Story = NA

\* the groups the GroupKey priority gives for the records of d
GroupsOf(d) ==
    { <<"epic", d[i].Epic>> : i \in { k \in 1..Len(d) : IsEpicTagged(d[k]) } }
    \cup { <<"story", d[i].Story>> : i \in { k \in 1..Len(d) : IsStoryOnly(d[k]) } }
    \cup { <<"untagged", NA>> : i \in { k \in 1..Len(d) : IsUntagged(d[k]) } }

\* the key and the counts of the row of group g
GroupRow(d, g) ==
    CASE g[1] = "epic" ->
           <<g[2], SumCounts(SelectSeq(d, LAMBDA r : IsEpicTagged(r) /\ r.Epic = g[2]))>>
      [] g[1] = "story" ->
           <<g[2] \o " - No EPIC Tagged",
             SumCounts(SelectSeq(d, LAMBDA r : IsStoryOnly(r) /\ r.Story = g[2]))>>
      [] g[1] = "untagged" ->
           <<"Test Cases Not Tagged", SumCounts(SelectSeq(d, LAMBDA r : IsUntagged(r)))>>

\* C2: the rows are exactly one row per epic value (keyed by the epic, with the
\* counts of every record carrying that epic, whatever its feature and story),
\* one row per story of the story-only records (keyed story + " - No EPIC
\* Tagged"), and one row keyed "Test Cases Not Tagged" holding the counts of the
\* untagged records, present only when there is such a record.
C2_GroupKeyRows ==
    LET rowOf(i) == <<consolidated_df[i].Epic, CountsOf(consolidated_df[i])>>
        groups == GroupsOf(df)
        wanted == { GroupRow(df, g) : g \in groups }
        got == { rowOf(i) : i \in 1..Len(consolidated_df) }
    IN /\ Len(consolidated_df) = Cardinality(groups)
       /\ \A v \in wanted \cup got :
            Cardinality({ i \in 1..Len(consolidated_df) : rowOf(i) = v })
              = Cardinality({ g \in groups : GroupRow(df, g) = v })

\* C2 witness: a story-only record and an untagged record, each with tests,
\* counted under their two fallback rows.
C2_Witness ==
    /\ \E i \in 1..Len(df) : IsStoryOnly(df[i]) /\ df[i].PASSED > 0
    /\ \E i \in 1..Len(df) : IsUntagged(df[i]) /\ df[i].BROKEN > 0
    /\ \E i \in 1..Len(consolidated_df) :
         /\ consolidated_df[i].Epic = "S1 - No EPIC Tagged"
         /\ consolidated_df[i].PASSED > 0
    /\ \E i \in 1..Len(consolidated_df) :
         /\ consolidated_df[i].Epic = "Test Cases Not Tagged"
         /\ consolidated_df[i].BROKEN > 0

StatusLabels == {"Acceptable", "Maintenance Advised", "Review Required"}

\* the status the thresholds give a defined pass rate (in hundredths)
StatusByThreshold(rate) ==
    IF rate >= 9500 THEN "Acceptable"
    ELSE IF rate >= 8000 /\ rate < 9500 THEN "Maintenance Advised"
    ELSE "Review Required"

\* C3: every row's status is one of the three labels and is decided by the
\* row's rounded passRate alone: >= 95 Acceptable, 80 <= . < 95 Maintenance
\* Advised, < 80 Review Required (95.00, 80.00 and 79.99 included).
C3_StatusByPassRate ==
    /\ \A i \in 1..Len(consolidated_df) :
         LET r == consolidated_df[i]
         IN /\ r.status \in StatusLabels
            /\ r.passRate # NaN => r.status = StatusByThreshold(r.passRate)
            /\ r.passRate = 9500 => r.status = "Acceptable"
            /\ r.passRate = 8000 => r.status = "Maintenance Advised"
            /\ r.passRate = 7999 => r.status = "Review Required"
    /\ \A i, j \in 1..Len(consolidated_df) :
         consolidated_df[i].passRate = consolidated_df[j].passRate
           => consolidated_df[i].status = consolidated_df[j].status

\* C3 witness: a table with a row at 80.00 and a row at 79.99, on the two sides
\* of a threshold.
C3_Witness ==
    /\ \E i \in 1..Len(consolidated_df) :
         consolidated_df[i].passRate = 8000
         /\ consolidated_df[i].status = "Maintenance Advised"
    /\ \E i \in 1..Len(consolidated_df) :
         consolidated_df[i].passRate = 7999
         /\ consolidated_df[i].status = "Review Required"

\* C4: a group whose records all have zero tracked counts is aggregated like
\* any other: its row is there, with totalTests 0, an undefined passRate and
\* the status Review Required.
C4_ZeroTotalGroup ==
    /\ \A i \in 1..Len(consolidated_df) :
         consolidated_df[i].totalTests = 0
           => /\ consolidated_df[i].passRate = NaN
              /\ consolidated_df[i].status = "Review Required"
    /\ \A g \in GroupsOf(df) :
         GroupRow(df, g)[2] = <<0, 0, 0, 0>>
           => \E i \in 1..Len(consolidated_df) :
                /\ consolidated_df[i].Epic = GroupRow(df, g)[1]
                /\ consolidated_df[i].totalTests = 0

\* C4 witness: a group of two records without any test, next to no other row.
C4_Witness ==
    /\ Len(df) = 2
    /\ Len(consolidated_df) = 1
    /\ consolidated_df[1].totalTests = 0
    /\ consolidated_df[1].status = "Review Required"

\* passRate is 100 * passed / total rounded to 2 decimals: the nearest
\* hundredth (rate and the result in hundredths of a percent)
IsRounded(rate, passed, total) ==
    LET diff == rate * total - 10000 * passed
    IN 2 * diff <= total /\ 2 * (0 - diff) <= total

\* C5: in every row totalTests is the sum of the tracked outcome counts (four
\* of them in v6 and v7, UNKNOWN too in v2/v4/v5), and when totalTests > 0 the
\* passRate is 100 * passed / totalTests rounded to 2 decimals, within 0..100.
C5_TotalsAndPassRate ==
    /\ \A i \in 1..Len(consolidated_df) :
         LET r == consolidated_df[i]
         IN /\ r.totalTests = r.PASSED + r.FAILED + r.BROKEN + r.SKIPPED
            /\ r.totalTests > 0
                 => /\ IsRounded(r.passRate, r.PASSED, r.totalTests)
                    /\ 0 <= r.passRate /\ r.passRate <= 10000
    /\ \A i \in 1..Len(consolidated_v6) :
         LET r == consolidated_v6[i]
         IN /\ r.totalTests = r.PASSED + r.FAILED + r.BROKEN + r.SKIPPED
            /\ r.totalTests > 0
                 => /\ IsRounded(r.passRate, r.PASSED, r.totalTests)
                    /\ 0 <= r.passRate /\ r.passRate <= 10000
    /\ \A i \in 1..Len(consolidated_v5) :
         LET r == consolidated_v5[i]
         IN /\ r.totalTests
                 = r.PASSED + r.FAILED + r.BROKEN + r.SKIPPED + r.UNKNOWN
            /\ r.totalTests > 0
                 => /\ IsRounded(r.passRate, r.PASSED, r.totalTests)
                    /\ 0 <= r.passRate /\ r.passRate <= 10000

\* C5 witness: one epic built from two records, whose pass rate does not
\* terminate after 2 decimals in v7 and, with UNKNOWN counted, differs in v5.
C5_Witness ==
    /\ Len(df) = 2
    /\ Len(consolidated_df) = 1
    /\ consolidated_df[1].totalTests > 0
    /\ (consolidated_df[1].passRate * consolidated_df[1].totalTests
          # 10000 * consolidated_df[1].PASSED)
    /\ Len(consolidated_v5) = 1
    /\ consolidated_v5[1].UNKNOWN > 0
    /\ consolidated_v5[1].passRate # consolidated_df[1].passRate

\* the status labels in ascending string order
StatusRank(s) ==
    CASE s = "Acceptable" -> 1
      [] s = "Maintenance Advised" -> 2
      [] s = "Review Required" -> 3

\* C6: the table is sorted ascending by status label and, within a status,
\* descending by passRate with the undefined passRates last; so Acceptable rows
\* precede Maintenance Advised rows, which precede Review Required rows.
C6_Sorted ==
    /\ \A i \in 1..(Len(consolidated_df) - 1) :
         LET r == consolidated_df[i]
             s == consolidated_df[i + 1]
         IN \/ StatusRank(r.status) < StatusRank(s.status)
            \/ /\ r.status = s.status
               /\ \/ s.passRate = NaN
                  \/ r.passRate # NaN /\ r.passRate >= s.passRate
    /\ \A i, j \in 1..Len(consolidated_df) :
         i < j => StatusRank(consolidated_df[i].status)
                    <= StatusRank(consolidated_df[j].status)

\* C6 witness: two rows of one status with different defined pass rates, the
\* higher first although its group was built last.
C6_Witness ==
    /\ Len(consolidated_df) = 2
    /\ consolidated_df[1].status = consolidated_df[2].status
    /\ consolidated_df[2].passRate # NaN
    /\ consolidated_df[1].passRate > consolidated_df[2].passRate
    /\ consolidated_df[1].Epic = "Test Cases Not Tagged"
    /\ consolidated_df[2].Epic = "A"

RECURSIVE CellSum(_, _)
\* the cells of column j of a sequence of display rows, added up
CellSum(rows, j) ==
    IF rows = <<>> THEN 0 ELSE rows[1][j] + CellSum(Tail(rows), j)

\* the display rows an output must hold for the aggregated table cdf: the
\* aggregated rows in their order, then the one TOTAL row, each column of it the
\* sum of that column, passRate and status blank
IsDisplayOf(rows, cdf) ==
    LET n == Len(cdf)
    IN /\ Len(rows) = n + 1
       /\ \A i \in 1..n :
            rows[i] = << cdf[i].Epic, cdf[i].PASSED, cdf[i].FAILED, cdf[i].BROKEN,
                         cdf[i].SKIPPED, cdf[i].totalTests, cdf[i].passRate,
                         cdf[i].status >>
       /\ rows[n + 1][1] = "TOTAL"
       /\ \A j \in 2..6 : rows[n + 1][j] = CellSum(SubSeq(rows, 1, n), j)
       /\ rows[n + 1][7] = Blank
       /\ rows[n + 1][8] = ""

\* C7: the display table of the image and of the spreadsheet is the aggregated
\* rows in their sorted order followed by exactly one TOTAL row, the last,
\* whose outcome columns and totalTests are the sums over the aggregated rows
\* and whose passRate and status are blank.
C7_DisplayTable ==
    /\ image.written => IsDisplayOf(image.cellText, consolidated_df)
    /\ xlsx.written => IsDisplayOf(Tail(xlsx.rows), consolidated_df)
    /\ pbi.written => IsDisplayOf(Tail(pbi.rows), consolidated_df)

\* C7 witness: both outputs written from a table of two rows with tests.
C7_Witness ==
    /\ image.written /\ xlsx.written
    /\ Len(consolidated_df) = 2
    /\ consolidated_df[1].totalTests > 0
    /\ consolidated_df[2].totalTests > 0
    /\ image.cellText[3][6]
         = consolidated_df[1].totalTests + consolidated_df[2].totalTests
    /\ xlsx.rows[4][1] = "TOTAL"

\* the number of rows of a sequence of display rows that are keyed TOTAL with
\* a blank status
TotalRows(rows) ==
    Cardinality({ i \in 1..Len(rows) : rows[i][1] = "TOTAL" /\ rows[i][8] = "" })

\* C8: no call of save_epic_summary_table_plot or save_epic_summary_to_excel,
\* in any order and however often, changes consolidated_df (or the records),
\* consolidated_df never holds a TOTAL row, and each output written by a call
\* holds exactly one TOTAL row, which sums the aggregated rows only.
C8_OutputsLeaveTable ==
    [][ /\ consolidated_df' = consolidated_df
        /\ df' = df
        /\ \A i \in 1..Len(consolidated_df') :
             ~(consolidated_df'[i].Epic = "TOTAL" /\ consolidated_df'[i].status = "")
        /\ image'.written
             => /\ TotalRows(image'.cellText) = 1
                /\ image'.cellText[Len(image'.cellText)][6] = TrackedSum(consolidated_df)
        /\ xlsx'.written
             => /\ TotalRows(Tail(xlsx'.rows)) = 1
                /\ xlsx'.rows[Len(xlsx'.rows)][6] = TrackedSum(consolidated_df)
        /\ pbi'.written
             => /\ TotalRows(Tail(pbi'.rows)) = 1
                /\ pbi'.rows[Len(pbi'.rows)][6] = TrackedSum(consolidated_df)
      ]_vars

\* C8 witness: both outputs have been produced from a table with tests, and
\* the table is still what the aggregation of the records gives.
C8_Witness ==
    /\ image.written /\ xlsx.written /\ pbi.written
    /\ Len(consolidated_df) = 2
    /\ TrackedSum(consolidated_df) > 0
    /\ consolidated_df = _consolidate_epics(df)

\* C9: the rows rendered into the image and the data rows written to the
\* spreadsheet are the same rows in the same order, with the same cells in the
\* same column order and the same TOTAL row.
C9_SameRows ==
    /\ (image.written /\ xlsx.written) => image.cellText = Tail(xlsx.rows)
    /\ (image.written /\ pbi.written) => image.cellText = Tail(pbi.rows)
    /\ image.written => Len(image.colLabels) = Len(Columns)
    /\ xlsx.written => xlsx.rows[1] = Columns

\* C9 witness: both outputs written, with two aggregated rows of different
\* status and tests in the TOTAL row.
C9_Witness ==
    /\ image.written /\ xlsx.written /\ pbi.written
    /\ Len(image.cellText) = 3
    /\ Len(xlsx.rows) = 4
    /\ image.cellText[1][8] # image.cellText[2][8]
    /\ image.cellText[3][6] > 0

StatusColour(status) ==
    CASE status = "Acceptable" -> "lightgreen"
      [] status = "Maintenance Advised" -> "yellow"
      [] status = "Review Required" -> "lightpink"

StatusColours == {"lightgreen", "yellow", "lightpink"}

\* C10: in the image every cell of every aggregated row has the colour of
\* that row's status, every header cell has the header colour, and no cell of
\* the TOTAL row has a status colour; no aggregated row is left uncoloured.
C10_Colours ==
    image.written =>
      LET n == Len(consolidated_df)
          face == image.facecolor
      IN /\ Len(face) = n + 2
         /\ \A k \in 1..Len(face) : Len(face[k]) = Len(column_labels)
         /\ \A j \in 1..Len(column_labels) : face[1][j] = "paleturquoise"
         /\ \A i \in 1..n : \A j \in 1..Len(column_labels) :
              /\ consolidated_df[i].status \in StatusLabels
              /\ face[i + 1][j] = StatusColour(consolidated_df[i].status)
         /\ \A j \in 1..Len(column_labels) : face[n + 2][j] \notin StatusColours

\* C10 witness: an image of two aggregated rows of different status above the
\* TOTAL row.
C10_Witness ==
    /\ image.written
    /\ Len(consolidated_df) = 2
    /\ consolidated_df[1].status = "Acceptable"
    /\ consolidated_df[2].status = "Review Required"
    /\ image.facecolor[2][1] = "lightgreen"
    /\ image.facecolor[3][8] = "lightpink"
    /\ image.facecolor[4][1] = DefaultFace

----------------------------------------------------------------------------
\* C11: the spreadsheet carries the image's colour coding: every cell of an
\* aggregated row is filled with the colour of the row's status.
C11_SpreadsheetColours ==
    xlsx.written =>
        \A i \in 1..Len(consolidated_df) :
            \A j \in 1..Len(Columns) :
                xlsx.fill[i + 1][j] = StatusColour(consolidated_df[i].status)

----------------------------------------------------------------------------
\* the display row of an empty table: TOTAL with every count zero
EmptyTotalRow == <<"TOTAL", 0, 0, 0, 0, 0, Blank, "">>

\* C15: an empty record set is not an error: the aggregated table has no
\* rows, and every output written from it holds the TOTAL row alone, with all
\* counts zero.
C15_EmptyInput ==
    df = <<>> =>
        /\ pc = "ready"
        /\ raised = ""
        /\ consolidated_df = <<>>
        /\ final_df_plot(consolidated_df) = <<totals_row_plot(<<>>)>>
        /\ image.written => image.cellText = <<EmptyTotalRow>>
        /\ xlsx.written => Tail(xlsx.rows) = <<EmptyTotalRow>>
        /\ pbi.written => Tail(pbi.rows) = <<EmptyTotalRow>>

\* C15 witness: no records, and the image and both workbooks are written.
C15_Witness ==
    /\ df = <<>>
    /\ image.written /\ xlsx.written /\ pbi.written
    /\ Len(image.cellText) = 1
    /\ Len(xlsx.rows) = 2

----------------------------------------------------------------------------
\* C17: the keys of the aggregated rows are pairwise distinct, and no
\* aggregated row is keyed TOTAL.
C17_DistinctKeys ==
    /\ \A i, j \in 1..Len(consolidated_df) :
          i # j => consolidated_df[i].Epic # consolidated_df[j].Epic
    /\ \A i \in 1..Len(consolidated_df) : consolidated_df[i].Epic # "TOTAL"

----------------------------------------------------------------------------
(* Pass ratios next to the thresholds                                      *)

\* an epic, and no tag at all
RatioTags == { <<"A", NA, NA>>, <<NA, NA, NA>> }

\* 94.9951 % and 79.9950 % (just under a threshold, rounded onto it),
\* 94.9749 % and 79.9833 % (under a threshold, rounded to 94.97 and 79.98),
\* 95 %, 80 % and 100 %
RatioVectors ==
    { <<968, 51, 0, 0, 0>>,
      <<3203, 801, 0, 0, 0>>,
      <<189, 10, 0, 0, 0>>,
      <<959, 200, 40, 0, 0>>,
      <<19, 1, 0, 0, 0>>,
      <<4, 1, 0, 0, 0>>,
      <<7, 0, 0, 0, 0>> }

RatioRecords == { MkRecord(t, c) : t \in RatioTags, c \in RatioVectors }

\* __init__ on records whose pass ratios lie next to the thresholds
InitRatio == \E d \in SeqsUpTo(RatioRecords, MaxRecords) : Constructed(d)

SpecRatio == InitRatio /\ [][Next]_vars

\* C18 (as stated): the status agrees with the exact ratio: Acceptable only
\* if 100*passed >= 95*totalTests, Maintenance Advised only if
\* 80*totalTests <= 100*passed < 95*totalTests.
C18_ExactRatio ==
    \A i \in 1..Len(consolidated_df) :
        LET r == consolidated_df[i]
        IN r.totalTests > 0 =>
             /\ r.status = "Acceptable" => 100 * r.PASSED >= 95 * r.totalTests
             /\ r.status = "Maintenance Advised"
                  => /\ 80 * r.totalTests <= 100 * r.PASSED
                     /\ 100 * r.PASSED < 95 * r.totalTests

\* C18 (amended): the status agrees with the exact ratio to within the
\* rounding half-step of 0.005 points: Acceptable only if
\* 100*passed >= 94.995*totalTests, Maintenance Advised only if
\* 79.995*totalTests <= 100*passed <= 94.995*totalTests.
C18_RatioWithinHalfStep ==
    \A i \in 1..Len(consolidated_df) :
        LET r == consolidated_df[i]
        IN r.totalTests > 0 =>
             /\ r.status = "Acceptable"
                  => 20000 * r.PASSED >= 18999 * r.totalTests
             /\ r.status = "Maintenance Advised"
                  => /\ 15999 * r.totalTests <= 20000 * r.PASSED
                     /\ 20000 * r.PASSED <= 18999 * r.totalTests

\* C18 witness: 968 passed of 1019 is under 95 % and is classed Acceptable,
\* and 3203 passed of 4004 is under 80 % and is classed Maintenance Advised.
C18_Witness ==
    /\ Len(consolidated_df) = 2
    /\ \E i \in 1..2 :
          /\ consolidated_df[i].PASSED = 968
          /\ consolidated_df[i].totalTests = 1019
          /\ consolidated_df[i].passRate = 9500
          /\ consolidated_df[i].status = "Acceptable"
    /\ \E i \in 1..2 :
          /\ consolidated_df[i].PASSED = 3203
          /\ consolidated_df[i].totalTests = 4004
          /\ consolidated_df[i].status = "Maintenance Advised"
    /\ image.written

----------------------------------------------------------------------------
(* Aggregating again, and aggregating the records in another order         *)

\* _consolidate_epics called again on the analyzer: the selections, the
\* groupby and the concat build new frames, self.df is only read
consolidate_epics_again ==
    /\ pc = "ready"
    /\ consolidated_df' = _consolidate_epics(df)
    /\ df' = df
    /\ raised' = ""
    /\ UNCHANGED <<consolidated_v5, consolidated_v6, image, xlsx, pbi, pc>>

\* __init__ on the same records in another file order
init_reordered ==
    /\ pc = "ready"
    /\ \E f \in Permutations(1..Len(df)) :
          LET d == [i \in 1..Len(df) |-> df[f[i]]]
          IN /\ df' = d
             /\ consolidated_df' = _consolidate_epics(d)
             /\ consolidated_v5' = _consolidate_epics_v5(d)
             /\ consolidated_v6' = _consolidate_epics_v6(d)
    /\ raised' = ""
    /\ UNCHANGED <<image, xlsx, pbi, pc>>

NextRerun ==
    \/ consolidate_epics_again
    \/ init_reordered
    \/ save_epic_summary_table_plot
    \/ save_epic_summary_to_excel

\* records of every kind of tagging, with counts that tie (equal status and
\* pass rate under different keys) and counts that do not
RerunTags ==
    { <<"A", NA, NA>>, <<"S1 - No EPIC Tagged", NA, NA>>,
      <<"Test Cases Not Tagged", NA, NA>>, <<NA, NA, "S1">>, <<NA, NA, NA>>,
      <<NA, "F1", "S1">> }

RerunVectors == { <<0, 0, 0, 0, 0>>, <<19, 1, 0, 0, 1>>, <<4, 0, 1, 0, 0>> }

RerunRecords == { MkRecord(t, c) : t \in RerunTags, c \in RerunVectors }

InitRerun == \E d \in SeqsUpTo(RerunRecords, MaxRecords) : Constructed(d)

SpecRerun == InitRerun /\ [][NextRerun]_vars

\* a is b in another order
IsPermutation(a, b) ==
    /\ Len(a) = Len(b)
    /\ \E f \in Permutations(1..Len(a)) : \A i \in 1..Len(a) : a[i] = b[f[i]]

\* C14: aggregation is a pure, deterministic function of the records: a step
\* that aggregates again, on the same records or on the same records in
\* another order, leaves the records what they were (up to that order) and
\* yields the identical rows, in the identical order; and the table is at
\* every moment the aggregation of the records.
C14_PureAggregation ==
    [][ /\ IsPermutation(df', df)
        /\ consolidated_df' = consolidated_df
        /\ consolidated_df' = _consolidate_epics(df')
      ]_vars

\* C14 witness: two records of different epics in descending key order with
\* equal status and pass rate (a tie the sort leaves in groupby order), whose
\* table is the one the other order gives.
C14_Witness ==
    /\ Len(df) = 2
    /\ df[1].Epic # NA /\ df[2].Epic # NA
    /\ StrLess(df[2].Epic, df[1].Epic)
    /\ Len(consolidated_df) = 2
    /\ consolidated_df[1].passRate = consolidated_df[2].passRate
    /\ consolidated_df[1].Epic = df[2].Epic
    /\ consolidated_df = _consolidate_epics(<<df[2], df[1]>>)

----------------------------------------------------------------------------
(* The script: construct the analyzer, save the image, save the workbooks   *)

\* a count cell holding text that is not a number and not a missing-value
\* marker: read_csv leaves it as text and the column becomes a text column
Text == -3

\* records whose PASSED cell is not a number: a missing-value marker such as
\* N/A (read_csv reads it as NaN) or other text; one test FAILED
BadTags == { <<"A", NA, NA>>, <<NA, NA, NA>>, <<NA, "F1", NA>> }

BadRecords == { MkRecord(t, <<c, 1, 0, 0, 0>>) : t \in BadTags, c \in {NaN, Text} }

RunRecords == Records \cup BadRecords

\* PASSED is a text column
HasText(d) == \E i \in 1..Len(d) : d[i].PASSED = Text

InitRun ==
    /\ pc = "main_read"
    /\ df = <<>>
    /\ consolidated_df = <<>>
    /\ consolidated_v5 = <<>>
    /\ consolidated_v6 = <<>>
    /\ image = NoImage
    /\ xlsx = NoWorkbook
    /\ pbi = NoWorkbook
    /\ raised = ""

\* analyzer = TestAutomationAnalyzer(csv): read_csv raises when the file
\* cannot be read; with a text PASSED column the arithmetic on the rows of
\* the table raises TypeError (no row, no arithmetic); otherwise the
\* analyzer is constructed.  No exception is caught anywhere.
main_construct ==
    /\ pc = "main_read"
    /\ \/ /\ raised' = "FileNotFoundError"
          /\ pc' = "aborted"
          /\ UNCHANGED <<df, consolidated_df, consolidated_v5, consolidated_v6>>
       \/ \E d \in SeqsUpTo(RunRecords, MaxRecords) :
            /\ df' = d
            /\ IF /\ HasText(d)
                  /\ \/ epic_rows(d) # <<>>
                     \/ story_only_rows(d) # <<>>
                     \/ untagged_rows(d) # <<>>
               THEN /\ raised' = "TypeError"
                    /\ pc' = "aborted"
                    /\ UNCHANGED <<consolidated_df, consolidated_v5, consolidated_v6>>
               ELSE /\ consolidated_df' = _consolidate_epics(d)
                    /\ consolidated_v5' = _consolidate_epics_v5(d)
                    /\ consolidated_v6' = _consolidate_epics_v6(d)
                    /\ raised' = ""
                    /\ pc' = "main_plot"
    /\ UNCHANGED <<image, xlsx, pbi>>

\* analyzer.save_epic_summary_table_plot(): the label check, then savefig,
\* which writes the image or raises
main_save_plot ==
    /\ pc = "main_plot"
    /\ IF Len(Columns) # Len(column_labels)
       THEN /\ raised' = "ValueError"
            /\ pc' = "aborted"
            /\ UNCHANGED image
       ELSE \/ /\ image' = generate_epic_summary_table_plot(consolidated_df)
               /\ raised' = ""
               /\ pc' = "main_excel"
            \/ /\ raised' = "OSError"
               /\ pc' = "aborted"
               /\ UNCHANGED image
    /\ UNCHANGED <<df, consolidated_df, consolidated_v5, consolidated_v6, xlsx, pbi>>

\* analyzer.save_epic_summary_to_excel(): wb.save under the dated name, then
\* wb.save under the fixed name; either may raise
main_save_excel ==
    /\ pc = "main_excel"
    /\ \/ /\ xlsx' = workbook(consolidated_df)
          /\ pbi' = workbook(consolidated_df)
          /\ raised' = ""
          /\ pc' = "done"
       \/ /\ raised' = "OSError"
          /\ pc' = "aborted"
          /\ UNCHANGED <<xlsx, pbi>>
       \/ /\ xlsx' = workbook(consolidated_df)
          /\ raised' = "OSError"
          /\ pc' = "aborted"
          /\ UNCHANGED pbi
    /\ UNCHANGED <<df, consolidated_df, consolidated_v5, consolidated_v6, image>>

NextRun ==
    \/ main_construct
    \/ main_save_plot
    \/ main_save_excel

SpecRun == InitRun /\ [][NextRun]_vars

\* C13: a run that fails at any step leaves no partial output: when the
\* script has ended, with or without an exception, either the image and both
\* workbooks are written from the table or none of them is written.
C13_AllOrNothing ==
    pc \in {"done", "aborted"} =>
        \/ /\ image = generate_epic_summary_table_plot(consolidated_df)
           /\ xlsx = workbook(consolidated_df)
           /\ pbi = workbook(consolidated_df)
        \/ /\ ~image.written
           /\ ~xlsx.written
           /\ ~pbi.written

\* C16: a record with a non-numeric count is rejected with an error: once
\* such a record is loaded, an exception has ended the run, there is no
\* table, and no output is written.
C16_NonNumericRejected ==
    (pc # "main_read" /\ \E i \in 1..Len(df) : df[i].PASSED \in {NaN, Text}) =>
        /\ raised # ""
        /\ pc = "aborted"
        /\ consolidated_df = <<>>
        /\ ~image.written
        /\ ~xlsx.written
        /\ ~pbi.written

====
